---- MODULE Spec2Model ----
(***************************************************************************)
(* Payment relay of giveaura-payment-server.  The repository holds four    *)
(* revisions of the Express server:                                        *)
(*   "server_a"  src/server.js lines 1-272    (create-order only)          *)
(*   "server_b"  src/server.js lines 274-510  (confirm writes a donation)  *)
(*   "part_000"  src/unnamed/part_000         (confirm disabled, verify)   *)
(*   "part_001"  src/unnamed/part_001         (confirm in a transaction)   *)
(* One behaviour of the model is one deployment of one revision.  A        *)
(* request handler runs atomically up to its first await (Node runs a      *)
(* handler synchronously between awaits); every awaited store or gateway   *)
(* call is a separate step that other handlers can interleave with.        *)
(***************************************************************************)
EXTENDS Integers, Sequences, FiniteSets, TLC

(* ------------------------------ bounds -------------------------------- *)

\* number of requests one behaviour handles (each by its own handler)
MaxRequests == 2
\* largest value Date.now() takes (the clock starts at 1)
MaxClock == 2

Handlers == 1..MaxRequests

(* --------------------------- JavaScript values ------------------------ *)
\* A JSON body field is a tagged value; number values carry NaN/Infinity.

Undefined == [t |-> "undefined", s |-> "", n |-> 0]
Null == [t |-> "null", s |-> "", n |-> 0]
Str(x) == [t |-> "string", s |-> x, n |-> 0]
Num(k) == [t |-> "number", s |-> "", n |-> k]
NaN == [t |-> "number", s |-> "NaN", n |-> 0]
Infinity == [t |-> "number", s |-> "Infinity", n |-> 0]

\* !v is true for undefined, null, "", 0 and NaN
Falsy(v) ==
  \/ v.t \in {"undefined", "null"}
  \/ v.t = "string" /\ v.s = ""
  \/ v.t = "number" /\ (v.s = "NaN" \/ (v.s = "" /\ v.n = 0))

\* the decimal literals that occur in the request domains
DecimalLiterals == ("0" :> 0) @@ ("5" :> 5) @@ ("7" :> 7) @@ ("-5" :> -5)

\* Number(string): "" is 0, a decimal literal its value, anything else NaN
StringToNumber(s) ==
  IF s = "" THEN Num(0)
  ELSE IF s \in DOMAIN DecimalLiterals THEN Num(DecimalLiterals[s])
  ELSE IF s = "Infinity" THEN Infinity
  ELSE NaN

\* Number(v)
ToNumber(v) ==
  IF v.t = "number" THEN v
  ELSE IF v.t = "null" THEN Num(0)
  ELSE IF v.t = "string" THEN StringToNumber(v.s)
  ELSE NaN

\* x <= 0 on numbers: false for NaN and Infinity
LeqZero(x) == x.s = "" /\ x.n <= 0

\* Number.isNaN(x)
IsNaN(x) == x.t = "number" /\ x.s = "NaN"

\* a + b on numbers
Add(a, b) ==
  IF a.s = "NaN" \/ b.s = "NaN" THEN NaN
  ELSE IF a.s = "Infinity" \/ b.s = "Infinity" THEN Infinity
  ELSE Num(a.n + b.n)

\* Math.round(x * 100)
RoundTimes100(x) == IF x.s = "" THEN Num(x.n * 100) ELSE x

\* v || 0
OrZero(v) == IF Falsy(v) THEN Num(0) ELSE v

\* v || null
OrNull(v) == IF Falsy(v) THEN Null ELSE v

\* `${v}` in a template string
TemplateString(v) ==
  IF v.t = "string" THEN v.s
  ELSE IF v.t = "number" THEN (IF v.s = "" THEN ToString(v.n) ELSE v.s)
  ELSE v.t

(* ------------------------------ signature ----------------------------- *)

\* crypto.createHmac("sha256", key).update(msg).digest("hex"): the digest is
\* kept symbolic, a string determined by exactly the key and the message
Hmac(key, msg) == "hmac_sha256(" \o key \o "," \o msg \o ")"

\* the message the confirm and verify handlers sign: `${orderId}|${paymentId}`
SignedMessage(orderId, paymentId) ==
  TemplateString(orderId) \o "|" \o TemplateString(paymentId)

(* ---------------------------- request domains ------------------------- *)

\* the secret the deployment may be configured with
TheSecret == "s3cr3t"

PaymentIds == {"pay_1", "pay_2"}
OrderIds == {"order_1"}
\* campaign documents the store may hold; only ExistingCampaigns exist
CampaignIds == {"c1", "c2"}
ExistingCampaigns == {"c1"}

PaymentIdValues == {Undefined} \cup {Str(p) : p \in PaymentIds}
OrderIdValues == {Undefined} \cup {Str(o) : o \in OrderIds}
CampaignIdValues == {Undefined} \cup {Str(c) : c \in CampaignIds}
SignatureValues ==
  {Undefined, Str("deadbeef")}
    \cup {Str(Hmac(TheSecret, SignedMessage(Str(o), Str(p)))) :
            o \in OrderIds, p \in PaymentIds}
ConfirmAmountValues == {Undefined, Num(0), Num(-5), Num(5), Num(7)}
OrderAmountValues ==
  {Undefined, Null, Num(0), Num(-5), Num(5), Str("5"), Str("abc"), Infinity}
PurposeValues == {Undefined, Str("donation"), Str("event"), Str("refund")}

\* req.body.meta: the keys it may carry; a key it does not carry is Undefined
\* (a JSON body cannot carry undefined). An absent, empty or null meta is
\* NoMeta
NoMeta == [purpose |-> Undefined, campaignId |-> Undefined,
           eventId |-> Undefined, seats |-> Undefined]

MetaValues ==
  {NoMeta,
   [NoMeta EXCEPT !.purpose = Str("refund"), !.campaignId = Str("c2")],
   [purpose |-> Str("event"), campaignId |-> Null, eventId |-> Str("e1"),
    seats |-> Num(2)]}

\* req.body of one request; a field the route does not read is Undefined
Body(route, paymentId, orderId, signature, campaignId, amount, purpose) ==
  [route |-> route, paymentId |-> paymentId, orderId |-> orderId,
   signature |-> signature, campaignId |-> campaignId, amount |-> amount,
   purpose |-> purpose, event |-> Undefined, bookingId |-> Undefined,
   eventId |-> Undefined, seats |-> Undefined, meta |-> NoMeta]

NoReq == Body("", Undefined, Undefined, Undefined, Undefined, Undefined,
              Undefined)

ConfirmRequests ==
  {Body("confirm", p, o, sg, c, a, Undefined) :
     p \in PaymentIdValues, o \in OrderIdValues, sg \in SignatureValues,
     c \in CampaignIdValues, a \in ConfirmAmountValues}

\* a present (truthy) amount that Number() turns into NaN
NonNumericAmountValues == {Str("abc")}

\* confirm requests whose amount is not a number
NonNumericConfirmRequests ==
  {Body("confirm", p, o, sg, c, a, Undefined) :
     p \in PaymentIdValues, o \in OrderIdValues, sg \in SignatureValues,
     c \in CampaignIdValues, a \in NonNumericAmountValues}

\* ids and signatures sent to the verify route; an id may hold the separator
VerifyPaymentIds == {"pay_1", "pay_2", "pay_1|pay_2"}
VerifyOrderIds == {"order_1", "order_1|pay_1"}
VerifySignatureValues ==
  {Undefined, Str("deadbeef"), Str(Hmac("wr0ng", "order_1|pay_1"))}
    \cup {Str(Hmac(TheSecret, SignedMessage(Str(o), Str(p)))) :
            o \in VerifyOrderIds, p \in VerifyPaymentIds}

VerifyRequests ==
  {Body("verify-signature", p, o, sg, Undefined, Undefined, Undefined) :
     p \in {Undefined} \cup {Str(x) : x \in VerifyPaymentIds},
     o \in {Undefined} \cup {Str(x) : x \in VerifyOrderIds},
     sg \in VerifySignatureValues}

\* booking documents the store holds, the seats each reserves and its event
BookingIds == {"b1"}
BookingSeats == 2
EventIds == {"e1"}

\* the path a payment gateway notification is posted to
WebhookPath == "webhook"

\* a gateway notification: the event type, the payment entity (id, order_id,
\* amount in minor units) and its notes (purpose, campaignId or bookingId)
WebhookRequests ==
  {[Body(WebhookPath, Str(p), Str("order_1"), Str("deadbeef"), c, Num(50000),
         pu)
      EXCEPT !.event = Str(e), !.bookingId = k] :
     p \in PaymentIds, e \in {"payment.captured", "payment.failed"},
     pu \in {Str("donation"), Str("event")},
     c \in {Undefined, Str("c1")}, k \in {Undefined, Str("b1")}}

CreateOrderRequests ==
  {[Body("create-order", Undefined, Undefined, Undefined, c, a, pu)
      EXCEPT !.meta = m] :
     c \in {Undefined, Str("c1")}, a \in OrderAmountValues,
     pu \in PurposeValues, m \in MetaValues}

\* the seats field of a booking order request
BookingSeatsValues == {Undefined, Null, Num(0), Num(BookingSeats)}

\* req.body of POST /api/events/create-booking-order
BookingOrderRequests ==
  {[Body("create-booking-order", Undefined, Undefined, Undefined, Undefined,
         a, Undefined)
      EXCEPT !.eventId = e, !.seats = n] :
     e \in {Undefined} \cup {Str(x) : x \in EventIds},
     n \in BookingSeatsValues, a \in OrderAmountValues}

(* -------------------------------- state ------------------------------- *)

VARIABLES
  variant,          \* which revision of the server is deployed
  keySecret,        \* process.env.RAZORPAY_KEY_SECRET
  razorpayInstance, \* TRUE when the Razorpay client was constructed
  firestoreEnabled, \* TRUE when firebase-admin was initialised
  clock,            \* Date.now()
  routes,           \* handlers registered for /api/events/create-booking-order
  campaigns,        \* Firestore documents campaigns/{id}
  donations,        \* Firestore donation documents (both collections)
  commitTs,         \* Firestore commit time (serverTimestamp)
  gatewayOrders,    \* orders created at the payment gateway
  pc,               \* handler -> position
  bookings,         \* Firestore documents bookings/{id}
  seatsSold,        \* Firestore documents events/{id}: the sold-seat counter
  req,              \* handler -> the body it destructured (while in flight)
  local,            \* handler -> its local variables across awaits
  resp              \* handler -> the response it sent

config == <<variant, keySecret, razorpayInstance, firestoreEnabled>>
store == <<campaigns, donations, commitTs>>
bookingStore == <<bookings, seatsSold>>
handlerVars == <<pc, req, local, resp>>
vars == <<variant, keySecret, razorpayInstance, firestoreEnabled, clock,
          routes, campaigns, donations, commitTs, gatewayOrders, bookings,
          seatsSold, pc, req, local, resp>>

Variants == {"server_a", "server_b", "part_000", "part_001"}

\* options of razorpayInstance.orders.create: the amount and the notes
OrderOptions(amount, purpose, campaignId) ==
  [amount |-> amount, purpose |-> purpose, campaignId |-> campaignId,
   eventId |-> Undefined, seats |-> Undefined, meta |-> Undefined]

\* {...notes, ...meta}: a key of meta replaces the note of the same name
SpreadMeta(order, meta) ==
  [order EXCEPT
     !.purpose = IF meta.purpose = Undefined THEN @ ELSE meta.purpose,
     !.campaignId = IF meta.campaignId = Undefined THEN @
                    ELSE meta.campaignId,
     !.eventId = IF meta.eventId = Undefined THEN @ ELSE meta.eventId,
     !.seats = IF meta.seats = Undefined THEN @ ELSE meta.seats]

\* JSON.stringify of a string, a finite number or null
JsonValue(v) ==
  IF v.t = "string" THEN "\"" \o v.s \o "\""
  ELSE IF v.t = "number" THEN ToString(v.n)
  ELSE "null"

\* the keys of meta, in the order the bodies of MetaValues list them
MetaKeys == <<"purpose", "campaignId", "eventId", "seats">>

\* the members of JSON.stringify(meta) from key i on; first tells whether no
\* member was written yet
RECURSIVE JsonMembers(_, _, _)
JsonMembers(meta, i, first) ==
  IF i > Len(MetaKeys) THEN ""
  ELSE IF meta[MetaKeys[i]] = Undefined THEN JsonMembers(meta, i + 1, first)
  ELSE (IF first THEN "" ELSE ",")
         \o "\"" \o MetaKeys[i] \o "\":" \o JsonValue(meta[MetaKeys[i]])
         \o JsonMembers(meta, i + 1, FALSE)

\* JSON.stringify(meta || {})
JsonStringify(meta) == "{" \o JsonMembers(meta, 1, TRUE) \o "}"

\* options of the booking order: notes {eventId, seats, purpose: "event"}
BookingOrderOptions(amount, eventId, seats) ==
  [amount |-> amount, purpose |-> Str("event"), campaignId |-> Undefined,
   eventId |-> eventId, seats |-> seats, meta |-> Undefined]

NoOrder == OrderOptions(Undefined, Undefined, Undefined)

NoLocal == [donationId |-> "", snapUpdatedAt |-> 0, raised |-> Num(0),
            attempt |-> 0, order |-> NoOrder]
NoResp == [status |-> 0, id |-> "", amount |-> Undefined, mock |-> FALSE,
           valid |-> FALSE]

\* res.status(st).json({success: false, ...})
Failure(st) == [status |-> st, id |-> "", amount |-> Undefined,
                mock |-> FALSE, valid |-> FALSE]
\* res.json({success: true, donationId | orderId: id, amount, _mock})
Success(id, amount, mock) == [status |-> 200, id |-> id, amount |-> amount,
                              mock |-> mock, valid |-> FALSE]
\* res.status(st).json({valid: v}) of the verify route
Verdict(st, v) == [status |-> st, id |-> "", amount |-> Undefined,
                   mock |-> FALSE, valid |-> v]

\* what a handler has done when it reaches its first await or its response
Reply(r) == [pc |-> "done", resp |-> r, donationId |-> "", order |-> NoOrder,
             registers |-> FALSE]
AwaitStore(stage, donationId) ==
  [pc |-> stage, resp |-> NoResp, donationId |-> donationId,
   order |-> NoOrder, registers |-> FALSE]
AwaitGateway(order) ==
  [pc |-> "gateway", resp |-> NoResp, donationId |-> "", order |-> order,
   registers |-> FALSE]

\* the deployment at boot, before any request
Boot ==
  /\ variant \in Variants
  /\ keySecret \in {Undefined, Str(TheSecret)}
  /\ razorpayInstance \in BOOLEAN
  /\ firestoreEnabled \in BOOLEAN
  /\ (variant \in {"server_a", "part_000"} => firestoreEnabled)
  /\ clock = 1
  /\ routes = (IF variant = "part_000" THEN 1 ELSE 0)
  /\ campaigns = [c \in CampaignIds |->
                    [exists |-> c \in ExistingCampaigns,
                     fundsRaised |-> Num(0), updatedAt |-> 0]]
  /\ donations = {}
  /\ commitTs = 0
  /\ gatewayOrders = {}
  /\ bookings = [k \in BookingIds |->
                   [status |-> "pending", seats |-> BookingSeats,
                    eventId |-> "e1"]]
  /\ seatsSold = [e \in EventIds |-> 0]
  /\ pc = [h \in Handlers |-> "idle"]
  /\ local = [h \in Handlers |-> NoLocal]
  /\ resp = [h \in Handlers |-> NoResp]

Init == Boot /\ req = [h \in Handlers |-> NoReq]

\* Date.now() advances (time that passes after the last request is not read)
Tick ==
  /\ clock < MaxClock
  /\ \E h \in Handlers : pc[h] = "idle"
  /\ clock' = clock + 1
  /\ UNCHANGED <<config, bookingStore, routes, store, gatewayOrders, handlerVars>>

\* requests are numbered in the order they arrive
NextToArrive(h) == pc[h] = "idle" /\ \A k \in Handlers : k < h => pc[k] # "idle"

(* ------------------------ POST /api/payment/confirm -------------------- *)

\* the expected signature; createHmac throws when the secret is not set
ExpectedSignature(b) == Str(Hmac(keySecret.s, SignedMessage(b.orderId, b.paymentId)))

\* Confirm_part_001 with the signature comparison left out
Confirm_part_001_NoSignatureCheck(b, now) ==
  IF Falsy(b.paymentId) \/ Falsy(b.orderId) \/ Falsy(b.signature)
       \/ Falsy(b.campaignId) \/ Falsy(b.amount)
  THEN Reply(Failure(400))
  ELSE IF keySecret = Undefined THEN Reply(Failure(500))
  ELSE IF ~firestoreEnabled THEN Reply(Failure(500))
  ELSE AwaitStore("txGet", "don_" \o ToString(now))

\* part_001: field check, signature check, then the transaction
Confirm_part_001(b, now) ==
  IF Falsy(b.paymentId) \/ Falsy(b.orderId) \/ Falsy(b.signature)
       \/ Falsy(b.campaignId) \/ Falsy(b.amount)
  THEN Reply(Failure(400))
  ELSE IF keySecret = Undefined THEN Reply(Failure(500))
  ELSE IF ExpectedSignature(b) # b.signature THEN Reply(Failure(401))
  ELSE IF ~firestoreEnabled THEN Reply(Failure(500))
  ELSE AwaitStore("txGet", "don_" \o ToString(now))

\* server.js (second revision): campaignId is not checked; a disabled store
\* still answers success, with a _warning and no _mock
Confirm_server_b(b, now) ==
  IF Falsy(b.paymentId) \/ Falsy(b.orderId) \/ Falsy(b.signature)
       \/ Falsy(b.amount)
  THEN Reply(Failure(400))
  ELSE IF keySecret = Undefined THEN Reply(Failure(500))
  ELSE IF ExpectedSignature(b) # b.signature THEN Reply(Failure(401))
  ELSE IF ~firestoreEnabled
  THEN Reply(Success("don_mock_" \o ToString(now), Undefined, FALSE))
  ELSE AwaitStore("set", "don_" \o ToString(now))

\* part_000: the route is disabled
Confirm_part_000(b, now) == Reply(Failure(410))

\* the revisions that register POST /api/payment/confirm
ConfirmVariants == {"server_b", "part_000", "part_001"}

ConfirmHandler(b, now) ==
  IF variant = "part_001" THEN Confirm_part_001(b, now)
  ELSE IF variant = "server_b" THEN Confirm_server_b(b, now)
  ELSE Confirm_part_000(b, now)

\* what the arrival of body b leaves behind: the handler's outcome and, while
\* the handler awaits the store, the body it destructured
ConfirmArrival(b, now) ==
  LET o == ConfirmHandler(b, now)
  IN [pc |-> o.pc, resp |-> o.resp, donationId |-> o.donationId,
      req |-> IF o.pc = "done" THEN NoReq ELSE b]

\* a confirm request arrives and its handler runs up to its first await
\* (bodies with the same outcome give the same step)
Confirm(h) ==
  /\ NextToArrive(h)
  /\ variant \in ConfirmVariants
  /\ \E a \in {ConfirmArrival(b, clock) : b \in ConfirmRequests} :
       /\ pc' = [pc EXCEPT ![h] = a.pc]
       /\ req' = [req EXCEPT ![h] = a.req]
       /\ local' = [local EXCEPT ![h] = [NoLocal EXCEPT !.donationId = a.donationId]]
       /\ resp' = [resp EXCEPT ![h] = a.resp]
  /\ UNCHANGED <<config, bookingStore, clock, routes, store, gatewayOrders>>

\* the confirm handler runs on the body that is waiting in req[h]
HandleConfirm(h) ==
  /\ pc[h] = "idle"
  /\ req[h].route = "confirm"
  /\ LET o == ConfirmHandler(req[h], clock) IN
       /\ pc' = [pc EXCEPT ![h] = o.pc]
       /\ local' = [local EXCEPT ![h] = [NoLocal EXCEPT !.donationId = o.donationId]]
       /\ resp' = [resp EXCEPT ![h] = o.resp]
  /\ UNCHANGED <<config, bookingStore, clock, routes, store, gatewayOrders, req>>

\* the campaign document the handler's transaction reads and updates
CampaignOf(h) == req[h].campaignId.s

CampaignExists(c) == c \in CampaignIds /\ campaigns[c].exists

\* the handler answers and its locals go out of scope
Respond(h, r) ==
  /\ pc' = [pc EXCEPT ![h] = "done"]
  /\ req' = [req EXCEPT ![h] = NoReq]
  /\ local' = [local EXCEPT ![h] = NoLocal]
  /\ resp' = [resp EXCEPT ![h] = r]

\* docRef.set(data): creates the document or overwrites the one with its key
SetDoc(docs, d) ==
  {x \in docs : ~(x.path = d.path /\ x.donationId = d.donationId)} \cup {d}

\* Number(snap.data().fundsRaised || 0)
SnapshotRaised(c) == ToNumber(OrZero(campaigns[c].fundsRaised))

\* tx.get(campaignRef) of an existing campaign: raised is read from the snapshot
TxGetFound(h) ==
  /\ pc[h] = "txGet"
  /\ CampaignExists(CampaignOf(h))
  /\ pc' = [pc EXCEPT ![h] = "txCommit"]
  /\ local' = [local EXCEPT
       ![h].snapUpdatedAt = campaigns[CampaignOf(h)].updatedAt,
       ![h].raised = SnapshotRaised(CampaignOf(h)),
       ![h].attempt = @ + 1]
  /\ UNCHANGED <<config, bookingStore, clock, routes, store, gatewayOrders, req, resp>>

\* tx.get of a missing campaign: the body throws, the catch answers 500
TxGetMissing(h) ==
  /\ pc[h] = "txGet"
  /\ ~CampaignExists(CampaignOf(h))
  /\ Respond(h, Failure(500))
  /\ UNCHANGED <<config, bookingStore, clock, routes, store, gatewayOrders>>

\* the document tx.set writes under campaigns/{campaignId}/donations
DonationDoc_part_001(b, donationId, ts) ==
  [path |-> "campaigns/" \o b.campaignId.s \o "/donations",
   donationId |-> donationId, campaignId |-> b.campaignId,
   amount |-> ToNumber(b.amount), paymentId |-> b.paymentId,
   orderId |-> b.orderId, createdAt |-> ts]

\* TxWrites with the campaign update left out of the commit
TxWrites_DonationOnly(b, donationId, raised, ts) ==
  [donations |-> SetDoc(donations, DonationDoc_part_001(b, donationId, ts)),
   campaigns |-> campaigns]

\* the two buffered writes of the transaction, applied together at commit
\* time ts: tx.set of the donation and tx.update of the campaign
TxWrites(b, donationId, raised, ts) ==
  [donations |-> SetDoc(donations, DonationDoc_part_001(b, donationId, ts)),
   campaigns |-> [campaigns EXCEPT ![b.campaignId.s] =
                    [exists |-> TRUE,
                     fundsRaised |-> Add(raised, ToNumber(b.amount)),
                     updatedAt |-> ts]]]

\* the commit succeeds when the campaign was not written since it was read
TxCommit(h) ==
  /\ pc[h] = "txCommit"
  /\ campaigns[CampaignOf(h)].updatedAt = local[h].snapUpdatedAt
  /\ LET w == TxWrites(req[h], local[h].donationId, local[h].raised,
                       commitTs + 1) IN
       /\ donations' = w.donations
       /\ campaigns' = w.campaigns
  /\ commitTs' = commitTs + 1
  /\ Respond(h, Success(local[h].donationId, Undefined, FALSE))
  /\ UNCHANGED <<config, bookingStore, clock, routes, gatewayOrders>>

\* a conflicting commit came first: runTransaction runs the body again
TxRetry(h) ==
  /\ pc[h] = "txCommit"
  /\ campaigns[CampaignOf(h)].updatedAt # local[h].snapUpdatedAt
  /\ pc' = [pc EXCEPT ![h] = "txGet"]
  /\ local' = [local EXCEPT ![h].snapUpdatedAt = 0, ![h].raised = Num(0)]
  /\ UNCHANGED <<config, bookingStore, clock, routes, store, gatewayOrders, req, resp>>

\* the store fails or times out during the transaction: nothing is written
TxFail(h) ==
  /\ pc[h] \in {"txGet", "txCommit"}
  /\ Respond(h, Failure(500))
  /\ UNCHANGED <<config, bookingStore, clock, routes, store, gatewayOrders>>

\* the document server.js writes to the top-level donations collection
DonationDoc_server_b(b, donationId, ts) ==
  [path |-> "donations", donationId |-> donationId,
   campaignId |-> OrNull(b.campaignId), amount |-> ToNumber(b.amount),
   paymentId |-> b.paymentId, orderId |-> b.orderId, createdAt |-> ts]

\* server.js: the single write of the confirmation, applied at time ts
DocSetWrites(b, donationId, ts) ==
  [donations |-> SetDoc(donations, DonationDoc_server_b(b, donationId, ts)),
   campaigns |-> campaigns]

\* server.js: db.collection("donations").doc(donationId).set(...)
DocSet(h) ==
  /\ pc[h] = "set"
  /\ commitTs' = commitTs + 1
  /\ donations' = DocSetWrites(req[h], local[h].donationId,
                               commitTs + 1).donations
  /\ Respond(h, Success(local[h].donationId, Undefined, FALSE))
  /\ UNCHANGED <<config, bookingStore, clock, routes, campaigns, gatewayOrders>>

\* server.js: the set() rejects
DocSetFail(h) ==
  /\ pc[h] = "set"
  /\ Respond(h, Failure(500))
  /\ UNCHANGED <<config, bookingStore, clock, routes, store, gatewayOrders>>

(* --------------------- POST /api/payment/create-order ------------------ *)

\* server.js (first revision): undefined, null, <= 0 and NaN are rejected
InvalidAmount_server_a(amount) ==
  \/ amount = Undefined
  \/ amount = Null
  \/ LeqZero(ToNumber(amount))
  \/ IsNaN(ToNumber(amount))

\* the other revisions: !amount || Number(amount) <= 0
InvalidAmount(amount) == Falsy(amount) \/ LeqZero(ToNumber(amount))

\* the mock order answered when the Razorpay client is missing
MockOrder(amount, now) ==
  Reply(Success("order_mock_" \o ToString(now),
                RoundTimes100(ToNumber(amount)), TRUE))

\* destructuring default: applies to undefined only
Default(v, d) == IF v = Undefined THEN d ELSE v

\* String(v || "")
StringOrEmpty(v) == IF Falsy(v) THEN Str("") ELSE Str(TemplateString(v))

CreateOrder_server_a(b, now) ==
  IF InvalidAmount_server_a(b.amount) THEN Reply(Failure(400))
  ELSE IF ~razorpayInstance THEN MockOrder(b.amount, now)
  ELSE AwaitGateway(OrderOptions(RoundTimes100(ToNumber(b.amount)),
                                 Undefined, Undefined))

CreateOrder_server_b(b, now) ==
  IF InvalidAmount(b.amount) THEN Reply(Failure(400))
  ELSE IF ~razorpayInstance THEN MockOrder(b.amount, now)
  ELSE AwaitGateway(OrderOptions(RoundTimes100(ToNumber(b.amount)),
                                 Undefined, Undefined))

AllowedPurposes == {Str("donation"), Str("event")}

\* part_000: purpose and campaignId are validated; a request that passes
\* registers the booking route once more before the order is made; the notes
\* of the order are {campaignId, purpose, ...meta}
CreateOrder_part_000(b, now) ==
  LET campaignId == Default(b.campaignId, Null)
      purpose == Default(b.purpose, Str("donation"))
      made == IF ~razorpayInstance THEN MockOrder(b.amount, now)
              ELSE AwaitGateway(
                     SpreadMeta(OrderOptions(RoundTimes100(ToNumber(b.amount)),
                                             purpose, campaignId), b.meta))
  IN IF InvalidAmount(b.amount) THEN Reply(Failure(400))
     ELSE IF purpose \notin AllowedPurposes THEN Reply(Failure(400))
     ELSE IF purpose = Str("donation") /\ Falsy(campaignId)
     THEN Reply(Failure(400))
     ELSE [made EXCEPT !.registers = TRUE]

\* part_001: purpose defaults to "donation" and goes into the notes unchecked,
\* next to String(campaignId || "") and JSON.stringify(meta || {})
CreateOrder_part_001(b, now) ==
  IF InvalidAmount(b.amount) THEN Reply(Failure(400))
  ELSE IF ~razorpayInstance THEN MockOrder(b.amount, now)
  ELSE AwaitGateway(
         [OrderOptions(RoundTimes100(ToNumber(b.amount)),
                       Default(b.purpose, Str("donation")),
                       StringOrEmpty(b.campaignId))
            EXCEPT !.meta = Str(JsonStringify(b.meta))])

CreateOrderHandler(b, now) ==
  IF variant = "server_a" THEN CreateOrder_server_a(b, now)
  ELSE IF variant = "server_b" THEN CreateOrder_server_b(b, now)
  ELSE IF variant = "part_000" THEN CreateOrder_part_000(b, now)
  ELSE CreateOrder_part_001(b, now)

\* a create-order request arrives and runs up to the gateway call
\* (bodies with the same outcome give the same step)
CreateOrder(h) ==
  /\ NextToArrive(h)
  /\ \E o \in {CreateOrderHandler(b, clock) : b \in CreateOrderRequests} :
       /\ pc' = [pc EXCEPT ![h] = o.pc]
       /\ local' = [local EXCEPT ![h] = [NoLocal EXCEPT !.order = o.order]]
       /\ resp' = [resp EXCEPT ![h] = o.resp]
       /\ routes' = (IF o.registers THEN routes + 1 ELSE routes)
  /\ UNCHANGED <<config, bookingStore, clock, store, gatewayOrders, req>>

\* the create-order handler runs on the body that is waiting in req[h]
HandleCreateOrder(h) ==
  /\ pc[h] = "idle"
  /\ req[h].route = "create-order"
  /\ LET o == CreateOrderHandler(req[h], clock) IN
       /\ pc' = [pc EXCEPT ![h] = o.pc]
       /\ local' = [local EXCEPT ![h] = [NoLocal EXCEPT !.order = o.order]]
       /\ resp' = [resp EXCEPT ![h] = o.resp]
       /\ routes' = (IF o.registers THEN routes + 1 ELSE routes)
  /\ UNCHANGED <<config, bookingStore, clock, store, gatewayOrders, req>>

(* ----------------- POST /api/events/create-booking-order --------------- *)

\* part_000, the handler registered at startup: seats defaults to 1; the
\* payload check compares the raw amount and seats with 0
CreateBookingOrder_part_000(b, now) ==
  LET seats == Default(b.seats, Num(1)) IN
  IF Falsy(b.eventId) \/ Falsy(b.amount) \/ LeqZero(ToNumber(b.amount))
       \/ LeqZero(ToNumber(seats))
  THEN Reply(Failure(400))
  ELSE IF ~razorpayInstance THEN MockOrder(b.amount, now)
  ELSE AwaitGateway(BookingOrderOptions(RoundTimes100(ToNumber(b.amount)),
                                        b.eventId, seats))

\* the revisions that register POST /api/events/create-booking-order
BookingVariants == {"part_000"}

\* a booking order request arrives and runs up to the gateway call
\* (bodies with the same outcome give the same step)
CreateBookingOrder(h) ==
  /\ NextToArrive(h)
  /\ variant \in BookingVariants
  /\ \E o \in {CreateBookingOrder_part_000(b, clock) :
                 b \in BookingOrderRequests} :
       /\ pc' = [pc EXCEPT ![h] = o.pc]
       /\ local' = [local EXCEPT ![h] = [NoLocal EXCEPT !.order = o.order]]
       /\ resp' = [resp EXCEPT ![h] = o.resp]
  /\ UNCHANGED <<config, bookingStore, clock, routes, store, gatewayOrders,
                 req>>

\* the booking order handler runs on the body that is waiting in req[h]
HandleCreateBookingOrder(h) ==
  /\ pc[h] = "idle"
  /\ req[h].route = "create-booking-order"
  /\ variant \in BookingVariants
  /\ LET o == CreateBookingOrder_part_000(req[h], clock) IN
       /\ pc' = [pc EXCEPT ![h] = o.pc]
       /\ local' = [local EXCEPT ![h] = [NoLocal EXCEPT !.order = o.order]]
       /\ resp' = [resp EXCEPT ![h] = o.resp]
  /\ UNCHANGED <<config, bookingStore, clock, routes, store, gatewayOrders,
                 req>>

(* ------------------------------ the gateway ---------------------------- *)

\* the gateway takes an order whose amount is a positive whole number of paise
GatewayAccepts(order) == order.amount.s = "" /\ order.amount.n > 0

\* razorpayInstance.orders.create resolves with the new order
GatewayCreate(h) ==
  /\ pc[h] = "gateway"
  /\ GatewayAccepts(local[h].order)
  /\ LET id == "order_" \o ToString(Cardinality(gatewayOrders) + 1) IN
       /\ gatewayOrders' = gatewayOrders \cup
            {[id |-> id, amount |-> local[h].order.amount,
              purpose |-> local[h].order.purpose,
              campaignId |-> local[h].order.campaignId,
              eventId |-> local[h].order.eventId,
              seats |-> local[h].order.seats,
              meta |-> local[h].order.meta]}
       /\ Respond(h, Success(id, local[h].order.amount, FALSE))
  /\ UNCHANGED <<config, bookingStore, clock, routes, store>>

\* razorpayInstance.orders.create rejects: the catch answers 500
GatewayFail(h) ==
  /\ pc[h] = "gateway"
  /\ Respond(h, Failure(500))
  /\ UNCHANGED <<config, bookingStore, clock, routes, store, gatewayOrders>>

(* ------------------- POST /api/payment/verify-signature ---------------- *)

\* VerifySignature_part_000 signing the orderId alone
VerifySignature_part_000_OrderOnly(b) ==
  IF Falsy(b.paymentId) \/ Falsy(b.orderId) \/ Falsy(b.signature)
  THEN Reply(Verdict(400, FALSE))
  ELSE IF keySecret = Undefined THEN Reply(Verdict(500, FALSE))
  ELSE Reply(Verdict(200, Str(Hmac(keySecret.s, TemplateString(b.orderId)))
                            = b.signature))

\* part_000: field check, then {valid: expected === signature}; createHmac
\* throws when the secret is not set and the catch answers 500
VerifySignature_part_000(b) ==
  IF Falsy(b.paymentId) \/ Falsy(b.orderId) \/ Falsy(b.signature)
  THEN Reply(Verdict(400, FALSE))
  ELSE IF keySecret = Undefined THEN Reply(Verdict(500, FALSE))
  ELSE Reply(Verdict(200, ExpectedSignature(b) = b.signature))

\* the revisions that register POST /api/payment/verify-signature
VerifyVariants == {"part_000"}

\* the verify handler runs on the body that is waiting in req[h]
HandleVerify(h) ==
  /\ pc[h] = "idle"
  /\ req[h].route = "verify-signature"
  /\ variant \in VerifyVariants
  /\ LET o == VerifySignature_part_000(req[h]) IN
       /\ pc' = [pc EXCEPT ![h] = o.pc]
       /\ resp' = [resp EXCEPT ![h] = o.resp]
  /\ UNCHANGED <<config, bookingStore, clock, routes, store, gatewayOrders, req, local>>

(* ------------------------------- routing ------------------------------ *)

\* the paths each revision registers a POST handler for
PostRoutes ==
  IF variant = "server_a" THEN {"create-order", "donations-record"}
  ELSE IF variant = "part_000"
  THEN {"create-booking-order", "create-order", "confirm", "verify-signature"}
  ELSE {"create-order", "confirm"}

\* a POST to a path no handler is registered for: Express answers 404 and no
\* handler of the server runs
HandleUnrouted(h) ==
  /\ pc[h] = "idle"
  /\ req[h].route # ""
  /\ req[h].route \notin PostRoutes
  /\ pc' = [pc EXCEPT ![h] = "done"]
  /\ resp' = [resp EXCEPT ![h] = Failure(404)]
  /\ UNCHANGED <<config, bookingStore, clock, routes, store, gatewayOrders,
                 req, local>>

\* steps of the confirm route
NextConfirm ==
  \/ Tick
  \/ \E h \in Handlers : Confirm(h)
  \/ \E h \in Handlers : TxGetFound(h)
  \/ \E h \in Handlers : TxGetMissing(h)
  \/ \E h \in Handlers : TxCommit(h)
  \/ \E h \in Handlers : TxRetry(h)
  \/ \E h \in Handlers : TxFail(h)
  \/ \E h \in Handlers : DocSet(h)
  \/ \E h \in Handlers : DocSetFail(h)

\* steps of the create-order route
NextOrders ==
  \/ Tick
  \/ \E h \in Handlers : CreateOrder(h)
  \/ \E h \in Handlers : CreateBookingOrder(h)
  \/ \E h \in Handlers : GatewayCreate(h)
  \/ \E h \in Handlers : GatewayFail(h)

Next == NextConfirm \/ NextOrders

\* any mix of requests
Spec == Init /\ [][Next]_vars

\* deployments that receive confirm requests only
SpecConfirm == Init /\ [][NextConfirm]_vars

\* deployments that receive create-order requests only
SpecOrders == Init /\ [][NextOrders]_vars

\* one request is waiting at a fresh deployment
InitArrival ==
  /\ Boot
  /\ \E b \in ConfirmRequests \cup NonNumericConfirmRequests
               \cup CreateOrderRequests \cup BookingOrderRequests
               \cup VerifyRequests \cup WebhookRequests :
       /\ b.route = "confirm" => variant \in ConfirmVariants
       /\ b.route = "verify-signature" => variant \in VerifyVariants
       /\ req = [h \in Handlers |-> IF h = 1 THEN b ELSE NoReq]

NextArrival ==
  \/ \E h \in Handlers : HandleConfirm(h)
  \/ \E h \in Handlers : HandleCreateOrder(h)
  \/ \E h \in Handlers : HandleCreateBookingOrder(h)
  \/ \E h \in Handlers : HandleVerify(h)
  \/ \E h \in Handlers : HandleUnrouted(h)
  \/ \E h \in Handlers : TxGetFound(h)
  \/ \E h \in Handlers : TxGetMissing(h)
  \/ \E h \in Handlers : TxCommit(h)
  \/ \E h \in Handlers : TxFail(h)
  \/ \E h \in Handlers : DocSet(h)
  \/ \E h \in Handlers : DocSetFail(h)
  \/ \E h \in Handlers : GatewayCreate(h)
  \/ \E h \in Handlers : GatewayFail(h)

\* one request at a fresh deployment, from its arrival to its response; the
\* body stays in req, next to what the handler did with it, until a store or
\* gateway call answers
SpecArrival == InitArrival /\ [][NextArrival]_vars

\* the caller sends one confirm request and sends it again, up to
\* MaxRequests times in all
InitRetry ==
  /\ Boot
  /\ variant \in ConfirmVariants
  /\ \E b \in ConfirmRequests : req = [h \in Handlers |-> b]

\* the next copy of the request arrives and its handler runs
HandleRetry(h) == NextToArrive(h) /\ HandleConfirm(h)

NextRetry ==
  \/ Tick
  \/ \E h \in Handlers : HandleRetry(h)
  \/ \E h \in Handlers : TxGetFound(h)
  \/ \E h \in Handlers : TxGetMissing(h)
  \/ \E h \in Handlers : TxCommit(h)
  \/ \E h \in Handlers : TxRetry(h)
  \/ \E h \in Handlers : TxFail(h)
  \/ \E h \in Handlers : DocSet(h)
  \/ \E h \in Handlers : DocSetFail(h)

\* one confirm request and its retries
SpecRetry == InitRetry /\ [][NextRetry]_vars

(* ------------------------------- claims -------------------------------- *)

\* a handler is in a store call
InStore(h) == pc[h] \in {"txGet", "txCommit", "set"}

\* no confirmation is in flight
Quiescent == \A h \in Handlers : ~InStore(h)

\* the donations of a paymentId
DonationsOfPayment(p) == {d \in donations : d.paymentId = p}

\* the donations that reference a campaign
DonationsOfCampaign(c) == {d \in donations : d.campaignId = Str(c)}

RECURSIVE SumAmounts(_)
\* the sum of amount over a set of donations
SumAmounts(S) ==
  IF S = {} THEN Num(0)
  ELSE LET d == CHOOSE x \in S : TRUE
       IN Add(d.amount, SumAmounts(S \ {d}))

\* handler h answers success in this step, out of a store call
CommitsNow(h) == InStore(h) /\ pc'[h] = "done" /\ resp'[h].status = 200

StoreUnchanged == donations' = donations /\ campaigns' = campaigns

\* C1: after any sequence of valid confirmations the store holds at most one
\* Donation per paymentId, and a campaign total is only ever incremented
\* together with the Donation of a paymentId that was not recorded before
\* (one increment per distinct paymentId).
C1_OneDonationPerPayment ==
  [][/\ \A d1, d2 \in donations' :
          d1.paymentId = d2.paymentId => d1 = d2
     /\ \A c \in CampaignIds :
          campaigns'[c] # campaigns[c] =>
            \E d \in donations' \ donations :
              DonationsOfPayment(d.paymentId) = {}]_vars

\* C2: a confirmation whose transaction lost a race (its body was run again
\* after a conflicting commit) and whose paymentId is by then persisted
\* writes nothing more: N concurrent confirmations of one paymentId persist
\* one Donation and increment the total once.
C2_ConcurrentSamePaymentOnce ==
  [][\A h \in Handlers :
       (/\ CommitsNow(h)
        /\ local[h].attempt > 1
        /\ DonationsOfPayment(req[h].paymentId) # {})
       => StoreUnchanged]_vars

\* C3: in every quiescent state the total of every campaign equals the sum of
\* amount over the persisted Donations that reference the campaign.
C3_TotalEqualsSum ==
  Quiescent =>
    \A c \in CampaignIds :
      campaigns[c].exists =>
        campaigns[c].fundsRaised = SumAmounts(DonationsOfCampaign(c))

\* the subcollection that holds the donations of campaign c
CampaignDonationsPath(c) == "campaigns/" \o c \o "/donations"

\* C4: the Donation written under a campaign and the increment of that
\* campaign's total appear in the same step or not at all: a step changes
\* the campaign document exactly when it writes a Donation under it, the new
\* total is the old total plus that Donation's amount, both carry the same
\* commit time, and a transaction that fails after its read writes neither.
C4_DonationAndIncrementAtomic ==
  [][/\ \A c \in CampaignIds :
          LET written == {d \in donations' :
                            /\ d \notin donations
                            /\ d.path = CampaignDonationsPath(c)}
          IN /\ (campaigns'[c] # campaigns[c]) <=> (written # {})
             /\ written # {} =>
                  \E d \in written :
                    /\ written = {d}
                    /\ campaigns'[c].updatedAt = d.createdAt
                    /\ campaigns'[c].fundsRaised =
                         Add(ToNumber(OrZero(campaigns[c].fundsRaised)),
                             d.amount)
     /\ \A h \in Handlers :
          (pc[h] \in {"txGet", "txCommit"} /\ resp'[h].status = 500)
            => StoreUnchanged]_vars

\* C4 witness: one transaction has committed its Donation together with the
\* increment, and another confirmation has failed with 500 leaving nothing.
C4_Witness ==
  /\ variant = "part_001"
  /\ \E h1, h2 \in Handlers :
       /\ resp[h1].status = 200
       /\ resp[h2].status = 500
       /\ Cardinality(donations) = 1
       /\ \E d \in donations :
            /\ d.donationId = resp[h1].id
            /\ campaigns["c1"].updatedAt = d.createdAt
            /\ campaigns["c1"].fundsRaised = d.amount

\* the five fields of a confirm body are all present (truthy)
AllConfirmFields(b) ==
  /\ ~Falsy(b.paymentId)
  /\ ~Falsy(b.orderId)
  /\ ~Falsy(b.signature)
  /\ ~Falsy(b.campaignId)
  /\ ~Falsy(b.amount)

\* the signature differs from HMAC-SHA256(secret, orderId + "|" + paymentId)
SignatureDiffers(b) ==
  b.signature # Str(Hmac(TheSecret, b.orderId.s \o "|" \o b.paymentId.s))

\* C5: with the secret configured, in the revisions that verify signatures
\* (server.js and part_001) a confirm request with all fields whose signature
\* differs from the HMAC is answered 401 at arrival and the store is left
\* unchanged; 401 is answered only at arrival (never out of a store call),
\* only to a request that carries a signature that differs from the HMAC,
\* and the step that answers it leaves the store unchanged.
C5_Mismatch401 ==
  [][\A h \in Handlers :
       /\ (/\ pc[h] = "idle" /\ pc'[h] # "idle"
           /\ req[h].route = "confirm"
           /\ keySecret = Str(TheSecret)
           /\ variant \in {"server_b", "part_001"}
           /\ AllConfirmFields(req[h])
           /\ SignatureDiffers(req[h]))
          => (pc'[h] = "done" /\ resp'[h].status = 401 /\ StoreUnchanged)
       /\ (resp'[h].status = 401 /\ resp[h].status # 401)
          => /\ pc[h] = "idle"
             /\ req[h].route = "confirm"
             /\ ~Falsy(req[h].signature)
             /\ SignatureDiffers(req[h])
             /\ StoreUnchanged
             /\ commitTs' = commitTs]_vars

\* C5 witness: a confirm request with all fields and a signature that differs
\* was answered 401 and the store is as it was at start.
C5_Witness ==
  /\ \E h \in Handlers :
       /\ pc[h] = "done" /\ resp[h].status = 401
       /\ req[h].route = "confirm"
       /\ AllConfirmFields(req[h]) /\ SignatureDiffers(req[h])
  /\ donations = {}
  /\ \A c \in CampaignIds : campaigns[c].updatedAt = 0

\* the requests that pass the field check and carry the right signature
SignedConfirmRequests ==
  {b \in ConfirmRequests : AllConfirmFields(b) /\ ~SignatureDiffers(b)}

\* the store after the confirmation of body b has run to its response from
\* the current state, with no other handler in between and no store failure
ConfirmEffect(b) ==
  LET o == ConfirmHandler(b, clock)
  IN IF o.pc = "txGet" /\ CampaignExists(b.campaignId.s)
     THEN TxWrites(b, o.donationId, SnapshotRaised(b.campaignId.s),
                   commitTs + 1)
     ELSE IF o.pc = "set"
     THEN DocSetWrites(b, o.donationId, commitTs + 1)
     ELSE [donations |-> donations, campaigns |-> campaigns]

\* C6: what a confirmation writes does not depend on the unsigned campaignId
\* and amount: when a confirmation commits, the store it leaves is the store
\* that any request with the same valid (orderId, paymentId, signature)
\* leaves, whatever campaignId and amount that request carries.
C6_UnsignedFieldsAdvisory ==
  [][\A h \in Handlers :
       (CommitsNow(h) /\ req[h] \in SignedConfirmRequests)
       => \A b \in SignedConfirmRequests :
            (/\ b.paymentId = req[h].paymentId
             /\ b.orderId = req[h].orderId
             /\ b.signature = req[h].signature)
            => ConfirmEffect(b) =
                 [donations |-> donations', campaigns |-> campaigns']]_vars

\* C7: in part_001, a confirmation that answers success for a paymentId that
\* was already persisted answers with the donationId of the existing
\* Donation and leaves the store unchanged.
C7_DuplicateEchoed ==
  [][\A h \in Handlers :
       (/\ variant = "part_001"
        /\ CommitsNow(h)
        /\ DonationsOfPayment(req[h].paymentId) # {})
       => /\ \E d \in DonationsOfPayment(req[h].paymentId) :
               resp'[h].id = d.donationId
          /\ StoreUnchanged]_vars

\* one of the five fields of a confirm body is missing
SomeConfirmFieldMissing(b) ==
  Undefined \in {b.paymentId, b.orderId, b.signature, b.campaignId, b.amount}

\* C8: in every revision with a confirm route, a request with one of
\* paymentId, orderId, signature, campaignId, amount missing is answered 4xx
\* by the field check (not 401 by the signature check) and reaches no store
\* call.
C8_MissingFieldRejected ==
  \A h \in Handlers :
    (/\ req[h].route = "confirm"
     /\ pc[h] # "idle"
     /\ SomeConfirmFieldMissing(req[h]))
    => /\ pc[h] = "done"
       /\ resp[h].status \in 400..499
       /\ resp[h].status # 401

\* the amount of a create-order body is not a positive finite number
NotPositiveFinite(v) ==
  \/ v \in {Undefined, Null}
  \/ ToNumber(v).s # ""
  \/ ToNumber(v).n <= 0

\* C9: in every revision a create-order request whose amount is not a
\* positive finite number is answered 400 at once: it gets no mock order and
\* no gateway call.
C9_InvalidAmountRejected ==
  \A h \in Handlers :
    (/\ req[h].route = "create-order"
     /\ pc[h] # "idle"
     /\ NotPositiveFinite(req[h].amount))
    => (pc[h] = "done" /\ resp[h].status = 400)

\* the purpose of a create-order body is not allowed, or it is "donation"
\* (given or by default) and there is no campaignId
InvalidPurpose(b) ==
  LET purpose == IF b.purpose = Undefined THEN Str("donation") ELSE b.purpose
  IN \/ purpose \notin {Str("donation"), Str("event")}
     \/ purpose = Str("donation") /\ b.campaignId = Undefined

\* C10: in every revision, in mock mode and in live mode, a create-order
\* request with a purpose other than "donation" or "event", or a donation
\* without campaignId, is answered 400 at once: it gets no mock order and no
\* gateway call.
C10_InvalidPurposeRejected ==
  \A h \in Handlers :
    (/\ req[h].route = "create-order"
     /\ pc[h] # "idle"
     /\ InvalidPurpose(req[h]))
    => (pc[h] = "done" /\ resp[h].status = 400)

\* the store holds what it held when the deployment started
StoreAsAtBoot ==
  /\ donations = {}
  /\ \A c \in CampaignIds :
       campaigns[c] = [exists |-> c \in ExistingCampaigns,
                       fundsRaised |-> Num(0), updatedAt |-> 0]

\* C11: when RAZORPAY_KEY_SECRET is not set, a confirm request (part_001) or
\* a verify-signature request (part_000) is answered at once with 400 or
\* 401, is not reported valid or successful, and the store is left as it
\* was, whatever signature the request carries.
C11_MissingSecretFailsClosed ==
  keySecret = Undefined =>
    \A h \in Handlers :
      (/\ pc[h] # "idle"
       /\ \/ req[h].route = "confirm" /\ variant = "part_001"
          \/ req[h].route = "verify-signature" /\ variant = "part_000")
      => /\ pc[h] = "done"
         /\ resp[h].status \in {400, 401}
         /\ ~resp[h].valid
         /\ StoreAsAtBoot

\* a <= b on numbers (false when either is NaN)
NumLeq(a, b) ==
  /\ a.s # "NaN" /\ b.s # "NaN"
  /\ \/ b.s = "Infinity"
     \/ a.s = "" /\ b.s = "" /\ a.n <= b.n

\* C12: no step lowers a campaign's total: whatever confirmation requests
\* pass the field check and the signature check, fundsRaised of every
\* campaign is non-decreasing.
C12_TotalNeverDecreases ==
  [][\A c \in CampaignIds :
       NumLeq(campaigns[c].fundsRaised, campaigns'[c].fundsRaised)]_vars

\* C13: persisted Donations of distinct paymentIds carry distinct
\* donationIds, and no write removes the last Donation of a paymentId (a
\* confirmation never overwrites the record of another payment), also when
\* two confirmations fall in the same millisecond or run concurrently.
C13_UniqueDonationId ==
  [][/\ \A d1, d2 \in donations' :
          d1.paymentId # d2.paymentId => d1.donationId # d2.donationId
     /\ \A d \in donations :
          \E e \in donations' : e.paymentId = d.paymentId]_vars

\* C14: in part_001 a confirmation with a valid signature that names a
\* campaign which does not exist ends without a 5xx answer and leaves the
\* store unchanged.
C14_MissingCampaignBenign ==
  [][\A h \in Handlers :
       (/\ variant = "part_001"
        /\ InStore(h) /\ pc'[h] = "done"
        /\ req[h].campaignId # Undefined
        /\ ~CampaignExists(CampaignOf(h)))
       => (resp'[h].status < 500 /\ StoreUnchanged)]_vars

\* every handler has answered or has not started
AllAnswered == \A h \in Handlers : pc[h] \in {"idle", "done"}

\* C15: in part_001, when one request with a positive amount was sent again
\* and again (after a failure, or after a commit whose answer the caller
\* did not see), every attempt has been answered and one of them with
\* success, the store is as after one application: one Donation, and the
\* campaign total raised by its amount once.
C15_RetrySafe ==
  (/\ variant = "part_001"
   /\ \A h \in Handlers : pc[h] = "done"
   /\ \E h \in Handlers : resp[h].status = 200
   /\ \A d \in donations : d.amount.s = "" /\ d.amount.n > 0)
  => /\ Cardinality(donations) = 1
     /\ \A d \in donations :
          campaigns[d.campaignId.s].fundsRaised = d.amount

\* C16: in part_001 the commit of a confirmation whose paymentId is not yet
\* persisted adds one Donation to those already persisted and raises the
\* total of its campaign by its amount, whatever other confirmations ran or
\* run beside it: none is lost, no update is lost.
C16_DifferentPaymentsIndependent ==
  [][\A h \in Handlers :
       (/\ variant = "part_001"
        /\ CommitsNow(h)
        /\ DonationsOfPayment(req[h].paymentId) = {})
       => /\ Cardinality(donations') = Cardinality(donations) + 1
          /\ donations \subseteq donations'
          /\ campaigns'[CampaignOf(h)].fundsRaised =
               Add(campaigns[CampaignOf(h)].fundsRaised,
                   ToNumber(req[h].amount))]_vars

\* the three fields of a verify body are all present (truthy)
AllVerifyFields(b) ==
  ~Falsy(b.paymentId) /\ ~Falsy(b.orderId) /\ ~Falsy(b.signature)

\* a verify request of handler h has been answered, with the secret set
Verified(h) ==
  /\ req[h].route = "verify-signature"
  /\ pc[h] = "done"
  /\ keySecret = Str(TheSecret)
  /\ AllVerifyFields(req[h])

\* a confirm request of handler h has passed or failed the signature check
SignatureChecked(h) ==
  /\ req[h].route = "confirm"
  /\ pc[h] # "idle"
  /\ variant \in {"server_b", "part_001"}
  /\ keySecret = Str(TheSecret)
  /\ AllConfirmFields(req[h])

\* the verify requests that carry signature sg with another (orderId,
\* paymentId) pair than body b
OtherPairs(b) ==
  {x \in VerifyRequests :
     /\ AllVerifyFields(x)
     /\ x.signature = b.signature
     /\ <<x.orderId, x.paymentId>> # <<b.orderId, b.paymentId>>}

\* verify answers valid, and confirm passes the signature check, exactly for
\* the hex HMAC-SHA256 of orderId + "|" + paymentId under the secret
AcceptsExactlyTheHmac ==
  \A h \in Handlers :
    /\ Verified(h) =>
         /\ resp[h].status = 200
         /\ resp[h].valid <=> ~SignatureDiffers(req[h])
    /\ SignatureChecked(h) =>
         ((pc[h] = "done" /\ resp[h].status = 401) <=> SignatureDiffers(req[h]))

\* C17 as stated: verify accepts exactly the HMAC of orderId + "|" +
\* paymentId under the configured secret, and a signature accepted for one
\* (orderId, paymentId) pair is not accepted for any different pair.
C17_VerifyIffHmac ==
  /\ AcceptsExactlyTheHmac
  /\ \A h \in Handlers :
       (Verified(h) /\ resp[h].valid) =>
         \A x \in OtherPairs(req[h]) :
           ~VerifySignature_part_000(x).resp.valid

\* C17 as amended: verify accepts exactly the HMAC of orderId + "|" +
\* paymentId under the configured secret, and a signature accepted for one
\* (orderId, paymentId) pair is accepted for a different pair exactly when
\* both pairs give the same string orderId + "|" + paymentId.
C17_VerifyIffHmacOfMessage ==
  /\ AcceptsExactlyTheHmac
  /\ \A h \in Handlers :
       (Verified(h) /\ resp[h].valid) =>
         \A x \in OtherPairs(req[h]) :
           VerifySignature_part_000(x).resp.valid
             <=> SignedMessage(x.orderId, x.paymentId)
                   = SignedMessage(req[h].orderId, req[h].paymentId)

\* C17 witness: a verify request was answered valid for a signature that
\* another pair with the same joined string shares.
C17_Witness ==
  \E h \in Handlers :
    /\ Verified(h) /\ resp[h].valid
    /\ \E x \in OtherPairs(req[h]) : VerifySignature_part_000(x).resp.valid

\* handler h has answered a "payment.captured" notification
CapturedAnswered(h) ==
  /\ req[h].route = WebhookPath
  /\ req[h].event = Str("payment.captured")
  /\ pc[h] = "done"

\* amount in minor units as an amount in major units
MajorUnits(a) == Num(a.n \div 100)

\* C18: once a "payment.captured" notification with notes {purpose:
\* "donation", campaignId: c} and amount a in minor units is answered, the
\* store holds exactly one Donation of its payment, of amount a / 100, and
\* the total of campaign c is a / 100 higher than at start; a notification
\* of any other event is acknowledged (2xx) and changes nothing.
C18_WebhookAppliedOnce ==
  \A h \in Handlers :
    /\ (/\ CapturedAnswered(h)
        /\ req[h].purpose = Str("donation")
        /\ req[h].campaignId = Str("c1"))
       => /\ \E d \in donations :
               /\ DonationsOfPayment(req[h].paymentId) = {d}
               /\ d.amount = MajorUnits(req[h].amount)
          /\ campaigns["c1"].fundsRaised = MajorUnits(req[h].amount)
    /\ (/\ req[h].route = WebhookPath
        /\ req[h].event # Str("payment.captured")
        /\ pc[h] = "done")
       => (resp[h].status \in 200..299 /\ StoreAsAtBoot)

\* C19: once a "payment.captured" notification for booking k is answered,
\* booking k is confirmed and the sold-seat counter of its event has been
\* raised by the booking's seats, once; and in every state a booking is
\* confirmed exactly when its seats are counted.
C19_BookingConfirmedOnce ==
  /\ \A h \in Handlers :
       (/\ CapturedAnswered(h)
        /\ req[h].purpose = Str("event")
        /\ req[h].bookingId # Undefined)
       => /\ bookings[req[h].bookingId.s].status = "confirmed"
          /\ seatsSold[bookings[req[h].bookingId.s].eventId] =
               bookings[req[h].bookingId.s].seats
  /\ \A k \in BookingIds :
       (bookings[k].status = "confirmed")
         <=> (seatsSold[bookings[k].eventId] = bookings[k].seats)

\* C20: no request changes what the process holds in memory: the handlers
\* registered for the booking route are those registered at startup.
C20_NoProcessState ==
  routes = (IF variant = "part_000" THEN 1 ELSE 0)

\* the request of handler h is a confirmation that is answered success:true
\* in this step
ConfirmSucceedsNow(h) ==
  /\ req[h].route = "confirm"
  /\ pc[h] # "done"
  /\ pc'[h] = "done"
  /\ resp'[h].status = 200

\* C21: POST /api/payment/confirm answers success:true with a donationId only
\* if, in handling that request, a Donation with that donationId was written
\* to the store; a request for which no Donation is persisted (store
\* unavailable or disabled) never receives a success response.
C21_SuccessOnlyIfPersisted ==
  [][\A h \in Handlers :
       ConfirmSucceedsNow(h) =>
         \E d \in donations' \ donations :
           /\ d.donationId = resp'[h].id
           /\ d.paymentId = req[h].paymentId]_vars

\* a finite number: neither NaN nor an infinity
Finite(x) == x.t = "number" /\ x.s = ""

\* C22: in every reachable state each campaign's total (fundsRaised) is a
\* finite number and each persisted Donation's amount is a finite positive
\* number, whatever truthy amount an accepted confirmation carried.
C22_TotalsAndAmountsFinite ==
  /\ \A c \in CampaignIds : Finite(campaigns[c].fundsRaised)
  /\ \A d \in donations : Finite(d.amount) /\ d.amount.n > 0

====
